---- MODULE Spec2Model ----
(***************************************************************************)
(* dcc-stream: model of src/src/main.rs, fn main (lines 41-133).           *)
(*                                                                         *)
(* main parses the debug base address, brings the core's debug logic up (EDPRSR, OSLAR, DSCR), installs a *)
(* Ctrl-C handler that clears the atomic flag `running`, and then polls    *)
(* the DCC data register in batches, classifying and printing each value.  *)
(*                                                                         *)
(* The program state is one record (args, the position in main, the local  *)
(* variables, and what was written to stdout / stderr / the access port).  *)
(* Every step of main is a function from such a record and the outcome of  *)
(* the external call it makes to the next record.  The variable `tw` runs  *)
(* the same program on the same outcomes with --stats switched off.        *)
(***************************************************************************)
EXTENDS Integers, Sequences, FiniteSets, TLC

VARIABLES
    st,      \* the process: args, pc, locals of main, output streams, port log
    tw,      \* the same process, same inputs, started without --stats
    clock,   \* what now.elapsed() returns: Ok(microseconds since line 98), or Err
    target,  \* what the target's DCC register produces (environment)
    sig      \* the first Ctrl-C handled: where main was, rounds issued by then

vars == <<st, tw, clock, target, sig>>

----------------------------------------------------------------------------
(* Bounds of the model.                                                    *)

MaxQueue == 2        \* --queue-size ranges over 1..MaxQueue
MaxTotal == 4        \* values read in a run of a target with free DCC values
MaxTotalLong == 200  \* values read in a run of a target with periodic values
MaxRetry == 2        \* failed DSCR reads before one succeeds
MaxClock == 1        \* microseconds the wall clock can be ahead of `now`

(* Program constants.                                                      *)

EDPRSR == 788        \* 0x314, main.rs:74
OSLAR == 768         \* 0x300, main.rs:78
DSCR == 136          \* 0x88,  main.rs:81 and 83
DCC == 140           \* 0x8c,  main.rs:100
StallBit == 20       \* 1 << 20, main.rs:83
StatsPeriod == 100   \* total % 100, main.rs:117
Half == 65536        \* 2^16: a u32 (base, main.rs:64) is kept as two halves

----------------------------------------------------------------------------
(* Results of the external accessor (jtag_adi::MemAP): Ok(v) or Err.       *)

Ok(v) == [ok |-> TRUE, val |-> v]
Err == [ok |-> FALSE, val |-> 0]

(* Mutant of PoweredUp: any bit of EDPRSR counts as powered (edprsr != 0). *)
PoweredUpAnyBit(edprsr) == edprsr # 0

(* edprsr & 1 == 1, main.rs:75 *)
PoweredUp(edprsr) == edprsr % 2 = 1

(* Mutant of StallMode: the bit is added, not or-ed. *)
StallModeAdd(dscr) == dscr + 2 ^ StallBit

(* dscr | (1 << 20), main.rs:83 *)
StallMode(dscr) ==
    IF (dscr \div (2 ^ StallBit)) % 2 = 1 THEN dscr ELSE dscr + 2 ^ StallBit

(* base + off on u32 (main.rs:74,78,81,83,100), with base = hi * 2^16 + lo *)
(* and off < 2^16: the sum wraps in a build without overflow checks and    *)
(* panics in a build with them.                                            *)
Carries(base, off) == base.hi + (base.lo + off) \div Half >= Half
Overflows(s, off) == s.checked /\ Carries(s.base, off)
Addr(s, off) ==
    [hi |-> (s.base.hi + (s.base.lo + off) \div Half) % Half,
     lo |-> (s.base.lo + off) % Half]

(* A panic: the process aborts with the message, at the line. *)
Panic(s, msg, line) == [s EXCEPT !.pc = "abort", !.panic = msg, !.line = line]

(* One access on the port, as the accessor sees it. *)
Access(op, addr, val, ok) == [op |-> op, addr |-> addr, val |-> val, ok |-> ok]

----------------------------------------------------------------------------
(* The debug base address, main.rs:62-71.  A string is a sequence of       *)
(* one-character strings.                                                  *)

DecDigits == <<"0", "1", "2", "3", "4", "5", "6", "7", "8", "9">>
LowerDigits == DecDigits \o <<"a", "b", "c", "d", "e", "f">>
UpperDigits == DecDigits \o <<"A", "B", "C", "D", "E", "F">>

(* Mutant of ToDigit: a character that is no digit counts as 0. *)
ToDigitLenient(c, radix) ==
    LET hits == {i \in 1..radix : LowerDigits[i] = c \/ UpperDigits[i] = c}
    IN IF hits = {} THEN 0 ELSE (CHOOSE i \in hits : TRUE) - 1

(* char::to_digit(radix), radix <= 16: the digit's value, or -1 for None. *)
ToDigit(c, radix) ==
    LET hits == {i \in 1..radix : LowerDigits[i] = c \/ UpperDigits[i] = c}
    IN IF hits = {} THEN -1 ELSE (CHOOSE i \in hits : TRUE) - 1

(* result.checked_mul(radix)?.checked_add(digit)? on a u32 kept as halves. *)
MulAdd(v, radix, d) ==
    LET lo == v.lo * radix + d
        hi == v.hi * radix + lo \div Half
    IN IF hi >= Half THEN Err ELSE Ok([hi |-> hi, lo |-> lo % Half])

(* The digits of src, most significant first, onto the accumulator acc. *)
RECURSIVE Digits(_, _, _)
Digits(src, radix, acc) ==
    IF src = <<>> \/ ~acc.ok THEN acc
    ELSE LET d == ToDigit(Head(src), radix)
         IN IF d < 0 THEN Err
            ELSE Digits(Tail(src), radix, MulAdd(acc.val, radix, d))

(* u32::from_str_radix(src, radix) and str::parse::<u32> (radix 10),       *)
(* main.rs:64 and 66: an optional "+", then one digit or more; no "-";     *)
(* Err on an empty string, a character that is no digit, or a value that   *)
(* does not fit.                                                           *)
FromStrRadix(src, radix) ==
    LET digits == IF src # <<>> /\ Head(src) = "+" THEN Tail(src) ELSE src
    IN IF digits = <<>> THEN Err
       ELSE Digits(digits, radix, Ok([hi |-> 0, lo |-> 0]))

(* args.debug_base.starts_with("0x"), main.rs:62 *)
StartsWith0x(src) == Len(src) >= 2 /\ src[1] = "0" /\ src[2] = "x"

(* let base = if args.debug_base.starts_with("0x") { ..from_str_radix(     *)
(*     &args.debug_base[2..len], 16).expect(..) } else { str::parse(..)    *)
(*     .expect("failed to parse debug base") };   main.rs:62-67            *)
(* The line printed at 71 ("Using debug base") is not kept in out.         *)
ParseBase(s) ==
    LET hex == StartsWith0x(s.debug_base)
        r == IF hex THEN FromStrRadix(SubSeq(s.debug_base, 3, Len(s.debug_base)), 16)
             ELSE FromStrRadix(s.debug_base, 10)
    IN IF ~r.ok THEN Panic(s, "failed to parse debug base", IF hex THEN 64 ELSE 66)
       ELSE [s EXCEPT !.base = r.val, !.pc = "edprsr"]

----------------------------------------------------------------------------
(* Bring-up, main.rs:73-86.                                                *)

(* Mutant of ReadEdprsr: the OS lock is not cleared (line 78 left out). *)
ReadEdprsrSkipLock(s, r) ==
    IF Overflows(s, EDPRSR) THEN Panic(s, "attempt to add with overflow", 74)
    ELSE LET s1 == [s EXCEPT !.log = Append(@, Access("read", Addr(s, EDPRSR), r.val, r.ok))]
         IN IF ~r.ok THEN Panic(s1, "read edprsr", 74)
            ELSE IF ~PoweredUp(r.val) THEN Panic(s1, "assertion failed", 75)
            ELSE [s1 EXCEPT !.pc = "dscr"]

(* let edprsr = debug.read(base + 0x314).expect("read edprsr");            *)
(* assert!(edprsr & 1 == 1);                                               *)
ReadEdprsr(s, r) ==
    IF Overflows(s, EDPRSR) THEN Panic(s, "attempt to add with overflow", 74)
    ELSE LET s1 == [s EXCEPT !.log = Append(@, Access("read", Addr(s, EDPRSR), r.val, r.ok))]
         IN IF ~r.ok THEN Panic(s1, "read edprsr", 74)
            ELSE IF ~PoweredUp(r.val) THEN Panic(s1, "assertion failed", 75)
            ELSE [s1 EXCEPT !.pc = "oslar"]

(* debug.write(base + 0x300, 0).expect("write oslar"); *)
WriteOslar(s, ok) ==
    IF Overflows(s, OSLAR) THEN Panic(s, "attempt to add with overflow", 78)
    ELSE LET s1 == [s EXCEPT !.log = Append(@, Access("write", Addr(s, OSLAR), 0, ok))]
         IN IF ~ok THEN Panic(s1, "write oslar", 78)
            ELSE [s1 EXCEPT !.pc = "dscr"]

(* Mutant of ReadDscr: the read is unwrapped like the others (.expect). *)
ReadDscrExpect(s, r) ==
    IF Overflows(s, DSCR) THEN Panic(s, "attempt to add with overflow", 81)
    ELSE LET s1 == [s EXCEPT !.log = Append(@, Access("read", Addr(s, DSCR), r.val, r.ok))]
         IN IF r.ok THEN [s1 EXCEPT !.pc = "dscr_write", !.dscr = r.val]
            ELSE Panic(s1, "read dscr", 81)

(* loop { if let Ok(dscr) = debug.read(base + 0x88) { ... } } *)
ReadDscr(s, r) ==
    IF Overflows(s, DSCR) THEN Panic(s, "attempt to add with overflow", 81)
    ELSE LET s1 == [s EXCEPT !.log = Append(@, Access("read", Addr(s, DSCR), r.val, r.ok))]
         IN IF r.ok THEN [s1 EXCEPT !.pc = "dscr_write", !.dscr = r.val]
            ELSE s1

(* debug.write(base + 0x88, dscr | (1 << 20)).expect("write dscr"); break; *)
WriteDscr(s, ok) ==
    LET s1 == [s EXCEPT !.log = Append(@, Access("write", Addr(s, DSCR), StallMode(s.dscr), ok))]
    IN IF ~ok THEN Panic(s1, "write dscr", 83)
       ELSE [s1 EXCEPT !.pc = "set_handler"]

----------------------------------------------------------------------------
(* Capture, main.rs:88-133.                                                *)

(* ctrlc::set_handler(move || { r.store(false, ..) }).expect("set handler"); *)
(* let mut dup = 0; let mut total = 0; let mut last = 0; let now = ..now(); *)
SetHandler(s, ok) ==
    IF ~ok THEN Panic(s, "set handler", 93)
    ELSE [s EXCEPT !.pc = "while", !.handler = TRUE,
                   !.dup = 0, !.total = 0, !.last = 0]

(* while running.load(Ordering::SeqCst) { *)
WhileRunning(s) ==
    IF s.running THEN [s EXCEPT !.pc = "read_multi"] ELSE [s EXCEPT !.pc = "exit"]

(* Mutants of ReadMulti: a failed read is tried again; each round asks for *)
(* one value more than the round before.                                   *)
ReadMultiRetry(s, r) ==
    LET s1 == [s EXCEPT !.log = Append(@, Access("read_multi", Addr(s, DCC), s.queue_size, r.ok))]
    IN IF ~r.ok THEN s1
       ELSE [s1 EXCEPT !.result = r.val, !.got = @ \o r.val,
                       !.pc = IF r.val = <<>> THEN "while" ELSE "for"]
ReadMultiGrowing(s, r) ==
    LET asked == s.queue_size + Cardinality({i \in DOMAIN s.log : s.log[i].op = "read_multi"})
        s1 == [s EXCEPT !.log = Append(@, Access("read_multi", Addr(s, DCC), asked, r.ok))]
    IN IF ~r.ok THEN Panic(s1, "read dcc", 100)
       ELSE [s1 EXCEPT !.result = r.val, !.got = @ \o r.val,
                       !.pc = IF r.val = <<>> THEN "while" ELSE "for"]

(* let result = debug.read_multi(base + 0x8c, queue_size as usize, false,  *)
(*     false).expect("read dcc");                                          *)
(* base + 0x8c cannot overflow where base + 0x314 did not (line 74).       *)
ReadMulti(s, r) ==
    LET s1 == [s EXCEPT !.log = Append(@, Access("read_multi", Addr(s, DCC), s.queue_size, r.ok))]
    IN IF ~r.ok THEN Panic(s1, "read dcc", 100)
       ELSE [s1 EXCEPT !.result = r.val, !.got = @ \o r.val,
                       !.pc = IF r.val = <<>> THEN "while" ELSE "for"]

(* eprintln!("STATS: total: {} duplicate: {} kbps: {}", total, dup,        *)
(*     (total * 32) * 1024 / elapsed.as_micros());   main.rs:118 and 128   *)
(* elapsed.as_micros() is a u128: the division panics when it is 0.  The   *)
(* field n is the number of values taken from the batches when the line    *)
(* is printed.                                                             *)
Stats(s, el, line) ==
    IF el = 0 THEN Panic(s, "attempt to divide by zero", line + 2)
    ELSE [s EXCEPT !.snaps = Append(@, [line |-> line, total |-> s.total, dup |-> s.dup,
                                        kbps |-> ((s.total * 32) * 1024) \div el,
                                        n |-> Len(s.got) - Len(s.result)])]

(* Mutant of Classify: a repeat clears last, so that only the repeat right *)
(* after a fresh value is taken for one.                                   *)
ClassifyResetLast(s, val) ==
    [s EXCEPT !.total = @ + 1,
              !.dup = IF val = s.last THEN @ + 1 ELSE @,
              !.last = IF val = s.last THEN 0 ELSE @]

(* Mutant of Classify: total counts only the values that are not repeats. *)
ClassifyFreshOnly(s, val) ==
    [s EXCEPT !.total = IF val = s.last THEN @ ELSE @ + 1,
              !.dup = IF val = s.last THEN @ + 1 ELSE @]

(* total += 1; if val == last { dup += 1; last = val; ..}   main.rs:103-107 *)
(* total is a u128 and dup an i32: neither can overflow within MaxTotalLong. *)
Classify(s, val) ==
    [s EXCEPT !.total = @ + 1,
              !.dup = IF val = s.last THEN @ + 1 ELSE @,
              !.last = IF val = s.last THEN val ELSE @]

(* Mutants of Suppress: the flag tested the wrong way round, and the flag  *)
(* not tested at all.                                                      *)
SuppressInverted(s, val) == val = s.last /\ ~s.nodups
SuppressAlways(s, val) == val = s.last

(* if val == last { .. if args.nodups { continue; } }   main.rs:105-110 *)
Suppress(s, val) == val = s.last /\ s.nodups

(* Mutant of Emit: line 112 (last = val) left out. *)
EmitKeepLast(s, val, el) ==
    IF ~el.ok THEN Panic(s, "elapsed", 114)
    ELSE [s EXCEPT !.out = Append(@, val)]

(* last = val;                                                 main.rs:112 *)
(* let elapsed = now.elapsed().expect("elapsed");                      114 *)
(* println!("{}: {:x}", elapsed.as_micros(), val);                     115 *)
(* el is what now.elapsed() returns: SystemTime is the wall clock, and     *)
(* elapsed() is an Err when it reads a time before `now`; the expect then  *)
(* panics, after last was assigned and before the line is printed.  Only   *)
(* the value of the printed line is kept in out.                           *)
Emit(s, val, el) ==
    LET s1 == [s EXCEPT !.last = val]
    IN IF ~el.ok THEN Panic(s1, "elapsed", 114)
       ELSE [s1 EXCEPT !.out = Append(@, val)]

(* if args.stats && total % 100 == 0 { eprintln!(..) }   main.rs:117-122 *)
Periodic(s, el) ==
    IF s.stats /\ s.total % StatsPeriod = 0 THEN Stats(s, el, 118) ELSE s

(* Mutant of Continue: the for loop looks at the flag and breaks. *)
ContinueWhileRunning(s) ==
    [s EXCEPT !.pc = IF ~s.running THEN "exit"
                     ELSE IF s.result = <<>> THEN "while" ELSE "for"]

(* The end of one iteration of `for val in result` (main.rs:102, 123):     *)
(* the next value, or the top of the while loop when the batch is used up. *)
Continue(s) == [s EXCEPT !.pc = IF s.result = <<>> THEN "while" ELSE "for"]

(* One iteration of `for val in result`, main.rs:102-123, on the next      *)
(* value of the batch; el is what now.elapsed() returns at line 114, read  *)
(* only where the value is not suppressed.                                 *)
ForVal(s, el) ==
    LET val == Head(s.result)
        s1 == Classify([s EXCEPT !.result = Tail(@)], val)
    IN IF Suppress(s, val) THEN Continue(s1)
       ELSE LET s2 == Emit(s1, val, el)
                s3 == IF s2.pc = "abort" THEN s2 ELSE Periodic(s2, el.val)
            IN IF s3.pc = "abort" THEN s3 ELSE Continue(s3)

(* if args.stats { let elapsed = now.elapsed().expect("elapsed");          *)
(*     eprintln!(..) }  and the return from main, 126-133; el is what      *)
(* now.elapsed() returns at line 127, read only with --stats.              *)
Exit(s, el) ==
    IF s.stats
    THEN IF ~el.ok THEN Panic(s, "elapsed", 127)
         ELSE LET s1 == Stats(s, el.val, 128)
              IN IF s1.pc = "abort" THEN s1 ELSE [s1 EXCEPT !.pc = "done"]
    ELSE [s EXCEPT !.pc = "done"]

(* Mutant of Handler: the handler also clears the counters. *)
HandlerResets(s) == [s EXCEPT !.running = FALSE, !.total = 0, !.dup = 0]

(* r.store(false, Ordering::SeqCst), main.rs:92 *)
Handler(s) == [s EXCEPT !.running = FALSE]

----------------------------------------------------------------------------
(* The inputs: the command line, the build, and the target.                *)

Values == {0, 1, 2}                          \* words the DCC register returns
EdprsrVals == {0, 1, 2, 3}                   \* words the EDPRSR read returns
DscrVals == {0, 5, 2 ^ StallBit, 2 ^ StallBit + 5}  \* words the DSCR read returns
Periods == {1, 2, 3}                          \* run lengths of a periodic target

(* The debug_base arguments: parsed ones, and malformed ones. *)
Base81 == <<"0", "x", "8", "1", "0", "0", "0", "0", "0", "0">>
GoodBases ==
    {Base81,
     <<"0", "x", "f", "f", "f", "f", "f", "f", "0", "0">>,
     <<"0", "x", "1", "0", "0", "0">>,
     <<"4", "0", "9", "6">>}
BadBases ==
    {<<"0", "x", "Z", "Z">>,
     <<>>,
     <<"0", "x">>,
     <<"1", "2", "a">>,
     <<"-", "1">>,
     <<"0", "X", "1", "0">>,
     <<"4", "2", "9", "4", "9", "6", "7", "2", "9", "6">>,
     <<"0", "x", "1", "0", "0", "0", "0", "0", "0", "0", "0">>}

(* The base an argument stands for ([hi, lo]; 0 for a malformed one). *)
BaseOf(arg) ==
    IF StartsWith0x(arg) THEN FromStrRadix(SubSeq(arg, 3, Len(arg)), 16).val
    ELSE FromStrRadix(arg, 10).val
(* The build profile matters only where base + offset overflows. *)
Builds ==
    {b \in [arg : GoodBases \cup BadBases, checked : BOOLEAN] :
        b.checked \/ (b.arg \in GoodBases /\ Carries(BaseOf(b.arg), EDPRSR))}

(* A target whose bring-up registers answer freely and whose DCC register *)
(* repeats each word p times; one whose bring-up succeeds at once and     *)
(* whose DCC register returns any words, in batches of any length.        *)
FlakyTargets == {[bringup |-> "any", dcc |-> "period", p |-> p, limit |-> MaxTotal] : p \in {2}}
FreeTargets == {[bringup |-> "steady", dcc |-> "any", p |-> 0, limit |-> MaxTotal]}
(* The target of the scenario: queue size 4, the accessor returns the     *)
(* batches [1,1,2,3] and then [3,3,3,4].                                   *)
Scenario == <<(<<1, 1, 2, 3>>), (<<3, 3, 3, 4>>)>>
ScenarioTargets ==
    {[bringup |-> "steady", dcc |-> "script", p |-> 0,
      limit |-> Len(Scenario[1]) + Len(Scenario[2])]}
LongTargets == {[bringup |-> "steady", dcc |-> "period", p |-> p, limit |-> MaxTotalLong] : p \in Periods}

(* The process when main reaches line 62: the access port is opened, no    *)
(* register of the debug block has been accessed.                          *)
Start(nodups, stats, queue_size, b) ==
    [nodups |-> nodups, stats |-> stats, queue_size |-> queue_size,
     debug_base |-> b.arg, base |-> [hi |-> 0, lo |-> 0], checked |-> b.checked,
     pc |-> "parse", panic |-> "", line |-> 0,
     running |-> TRUE, handler |-> FALSE,
     dscr |-> 0, dup |-> 0, total |-> 0, last |-> 0, result |-> <<>>,
     out |-> <<>>, snaps |-> <<>>, log |-> <<>>, got |-> <<>>]

(* All sequences over S of length n, and of length at most n. *)
RECURSIVE SeqsOfLen(_, _)
SeqsOfLen(S, n) ==
    IF n = 0 THEN {<<>>}
    ELSE {Append(q, x) : q \in SeqsOfLen(S, n - 1), x \in S}
SeqsUpTo(S, n) == UNION {SeqsOfLen(S, k) : k \in 0..n}

Min(a, b) == IF a < b THEN a ELSE b

(* The i-th word (from 0) of a periodic target: 1,2,0,1,2,0,.. each       *)
(* repeated p times.                                                       *)
PeriodicWord(p, i) == ((i \div p) + 1) % 3

(* The number of read_multi calls issued so far. *)
Rounds(s) == Cardinality({i \in DOMAIN s.log : s.log[i].op = "read_multi"})

(* What the accessor may answer. *)
EdprsrReads ==
    IF target.bringup = "any" THEN {Err} \cup {Ok(v) : v \in EdprsrVals} ELSE {Ok(1)}
Writes == IF target.bringup = "any" THEN BOOLEAN ELSE {TRUE}
DscrReads ==
    IF target.bringup = "any"
    THEN {Ok(v) : v \in DscrVals} \cup {r \in {Err} : Len(st.log) - 2 < MaxRetry}
    ELSE {Ok(0)}
DccReads ==
    LET room == target.limit - Len(st.got)
        n == Min(st.queue_size, room)
    IN {Err} \cup
       IF target.dcc = "any"
       THEN {Ok(q) : q \in SeqsUpTo(Values, n)}
       ELSE IF target.dcc = "script"
       THEN {Ok(Scenario[k]) : k \in {Rounds(st) + 1} \cap DOMAIN Scenario}
       ELSE {Ok([i \in 1..n |-> PeriodicWord(target.p, Len(st.got) + i - 1)])}

----------------------------------------------------------------------------
(* The actions.  Each applies a step of main to st and, where the twin is  *)
(* at the same place, to tw, with the same outcome of the external call.   *)

Live(s) == s.pc \notin {"done", "abort"}
Capturing(s) == s.pc \in {"while", "read_multi", "for", "exit"}

DoParseBase ==
    /\ st.pc = "parse"
    /\ st' = ParseBase(st)
    /\ tw' = IF tw.pc = "parse" THEN ParseBase(tw) ELSE tw
    /\ UNCHANGED <<clock, target, sig>>

DoReadEdprsr ==
    /\ st.pc = "edprsr"
    /\ \E r \in EdprsrReads :
          /\ st' = ReadEdprsr(st, r)
          /\ tw' = IF tw.pc = "edprsr" THEN ReadEdprsr(tw, r) ELSE tw
    /\ UNCHANGED <<clock, target, sig>>

DoWriteOslar ==
    /\ st.pc = "oslar"
    /\ \E ok \in Writes :
          /\ st' = WriteOslar(st, ok)
          /\ tw' = IF tw.pc = "oslar" THEN WriteOslar(tw, ok) ELSE tw
    /\ UNCHANGED <<clock, target, sig>>

DoReadDscr ==
    /\ st.pc = "dscr"
    /\ \E r \in DscrReads :
          /\ st' = ReadDscr(st, r)
          /\ tw' = IF tw.pc = "dscr" THEN ReadDscr(tw, r) ELSE tw
    /\ UNCHANGED <<clock, target, sig>>

DoWriteDscr ==
    /\ st.pc = "dscr_write"
    /\ \E ok \in Writes :
          /\ st' = WriteDscr(st, ok)
          /\ tw' = IF tw.pc = "dscr_write" THEN WriteDscr(tw, ok) ELSE tw
    /\ UNCHANGED <<clock, target, sig>>

DoSetHandler ==
    /\ st.pc = "set_handler"
    /\ \E ok \in Writes :
          /\ st' = SetHandler(st, ok)
          /\ tw' = IF tw.pc = "set_handler" THEN SetHandler(tw, ok) ELSE tw
    /\ UNCHANGED <<clock, target, sig>>

DoWhileRunning ==
    /\ st.pc = "while"
    /\ st' = WhileRunning(st)
    /\ tw' = IF tw.pc = "while" THEN WhileRunning(tw) ELSE tw
    /\ UNCHANGED <<clock, target, sig>>

DoReadMulti ==
    /\ st.pc = "read_multi"
    /\ Len(st.got) < target.limit
    /\ Rounds(st) < target.limit
    /\ \E r \in DccReads :
          /\ st' = ReadMulti(st, r)
          /\ tw' = IF tw.pc = "read_multi" THEN ReadMulti(tw, r) ELSE tw
    /\ UNCHANGED <<clock, target, sig>>

DoForVal ==
    /\ st.pc = "for"
    /\ st' = ForVal(st, clock)
    /\ tw' = IF tw.pc = "for" THEN ForVal(tw, clock) ELSE tw
    /\ UNCHANGED <<clock, target, sig>>

DoExit ==
    /\ st.pc = "exit"
    /\ st' = Exit(st, clock)
    /\ tw' = IF tw.pc = "exit" THEN Exit(tw, clock) ELSE tw
    /\ UNCHANGED <<clock, target, sig>>

(* SIGINT once the handler is installed: the handler runs on its own      *)
(* thread, at any point of main.                                           *)
CtrlC ==
    /\ st.handler /\ Live(st)
    /\ st' = Handler(st)
    /\ tw' = IF tw.handler /\ Live(tw) THEN Handler(tw) ELSE tw
    /\ sig' = IF sig.at = "none" THEN [at |-> st.pc, rounds |-> Rounds(st)] ELSE sig
    /\ UNCHANGED <<clock, target>>

(* A microsecond passes during capture: the wall clock moves on, from     *)
(* behind `now` to `now`, or one microsecond further.                      *)
Tick ==
    /\ Capturing(st)
    /\ clock.ok => clock.val < MaxClock
    /\ clock' = IF clock.ok THEN Ok(clock.val + 1) ELSE Ok(0)
    /\ UNCHANGED <<st, tw, target, sig>>

(* The wall clock is set back during capture, to a time before `now`:     *)
(* SystemTime is not monotonic, and elapsed() is an Err until it is past. *)
SetBack ==
    /\ Capturing(st)
    /\ clock.ok
    /\ clock' = Err
    /\ UNCHANGED <<st, tw, target, sig>>

InitWith(targets) ==
    /\ target \in targets
    /\ \E nodups \in BOOLEAN, stats \in BOOLEAN,
          q \in (1..MaxQueue) \cup {Len(Scenario[1])}, b \in Builds :
          /\ IF target.dcc = "script" THEN q = Len(Scenario[1]) ELSE q <= MaxQueue
          /\ target.bringup = "steady" => b.arg = Base81
          /\ st = Start(nodups, stats, q, b)
          /\ tw = Start(nodups, FALSE, q, b)
    /\ clock = Ok(0)
    /\ sig = [at |-> "none", rounds |-> 0]

Init == InitWith(FlakyTargets \cup FreeTargets \cup LongTargets \cup ScenarioTargets)

Next ==
    \/ DoParseBase
    \/ DoReadEdprsr
    \/ DoWriteOslar
    \/ DoReadDscr
    \/ DoWriteDscr
    \/ DoSetHandler
    \/ DoWhileRunning
    \/ DoReadMulti
    \/ DoForVal
    \/ DoExit
    \/ CtrlC
    \/ Tick
    \/ SetBack

Spec == Init /\ [][Next]_vars

(* The runs of the targets with free bring-up answers, where main goes on  *)
(* running through lines 80-93 (it is the only thread there) and the DSCR  *)
(* read succeeds after at most MaxRetry failures.                          *)
SpecRetry ==
    /\ InitWith(FlakyTargets) /\ [][Next]_vars
    /\ WF_vars(DoReadDscr) /\ WF_vars(DoWriteDscr) /\ WF_vars(DoSetHandler)

----------------------------------------------------------------------------
(* What the claims speak of.                                               *)

(* The values taken from the batches so far, in the order returned. *)
Processed(s) == SubSeq(s.got, 1, Len(s.got) - Len(s.result))

(* The number of values of q equal to the one before (0 before the first). *)
Repeats(q) ==
    Cardinality({i \in DOMAIN q : q[i] = (IF i = 1 THEN 0 ELSE q[i - 1])})

(* The snapshots printed in the loop (line 118) and after it (line 128). *)
PeriodicSnaps(s) == SelectSeq(s.snaps, LAMBDA x : x.line = 118)
FinalSnaps(s) == SelectSeq(s.snaps, LAMBDA x : x.line = 128)

(* The while loop was left because running was false, and main is over. *)
Stopped(s) == s.pc = "done" \/ (s.pc = "abort" /\ s.line \in {127, 130})

(* The process died inside an iteration of the for loop, at line 114: the  *)
(* value was taken and counted, and not printed.                           *)
InFlight(s) == s.pc = "abort" /\ s.line = 114

(* The values whose iteration got as far as the test of line 104 and, if   *)
(* not suppressed, the println of line 115.                                *)
Completed(s) ==
    SubSeq(s.got, 1, Len(s.got) - Len(s.result) - (IF InFlight(s) THEN 1 ELSE 0))

(* C1: with --nodups, the emitted stream never holds two consecutive equal *)
(* values, whatever the reads return and wherever the batches end.         *)
C1_NoConsecutiveEqual ==
    st.nodups => \A i \in 1..(Len(st.out) - 1) : st.out[i] # st.out[i + 1]

C1_Witness ==
    /\ st.nodups /\ st.pc = "done"
    /\ Rounds(st) >= 2 /\ st.dup >= 1 /\ Len(st.out) >= 2

(* C2: without --nodups, the emitted stream is exactly the values taken    *)
(* from the batches, in order (up to the one a panic cut short), and all   *)
(* values returned once a round ends.                                      *)
C2_Verbatim ==
    ~st.nodups =>
        /\ st.out = Completed(st)
        /\ st.pc \in {"while", "exit", "done"} => st.out = st.got

C2_Witness ==
    /\ ~st.nodups /\ st.pc = "done"
    /\ Rounds(st) >= 2 /\ st.dup >= 1 /\ Len(st.out) >= 3

(* C3: the duplicate count is the number of processed values equal to the  *)
(* value before them (0 before the first, carried across rounds), and last *)
(* is the most recently processed value, with --nodups on or off.          *)
C3_DuplicateCount ==
    LET q == Processed(st)
    IN /\ st.dup = Repeats(q)
       /\ st.last = IF q = <<>> THEN 0 ELSE q[Len(q)]

C3_Witness ==
    /\ st.nodups /\ Rounds(st) >= 2
    /\ st.dup >= 2 /\ st.got[1] = 0 /\ Len(st.out) >= 1 /\ st.last # 0

(* C4: total is the number of values processed since the loop started, at  *)
(* every point of the loop and in every statistics snapshot.               *)
C4_TotalCounts ==
    /\ st.total = Len(Processed(st))
    /\ \A i \in DOMAIN st.snaps : st.snaps[i].total = st.snaps[i].n

C4_Witness ==
    /\ st.nodups /\ st.dup >= 1
    /\ PeriodicSnaps(st) # <<>> /\ FinalSnaps(st) # <<>>
    /\ Len(st.out) < st.total

(* C5: with --stats, a snapshot is printed for exactly every processed     *)
(* value at which total is a multiple of 100, suppressed repeats included. *)
C5_EveryHundredth ==
    (st.stats /\ st.pc # "abort") =>
        LET per == PeriodicSnaps(st)
        IN /\ Len(per) = st.total \div StatsPeriod
           /\ \A i \in DOMAIN per : per[i].total = StatsPeriod * i

(* C6: with --stats, when the loop stops on cancellation exactly one final *)
(* snapshot follows the last round, with the final total and duplicate     *)
(* count; without --stats no snapshot is ever printed.                     *)
C6_FinalSnapshot ==
    /\ (st.stats /\ Stopped(st)) =>
          /\ Len(FinalSnaps(st)) = 1
          /\ st.snaps # <<>>
          /\ st.snaps[Len(st.snaps)].line = 128
          /\ st.snaps[Len(st.snaps)].total = st.total
          /\ st.snaps[Len(st.snaps)].dup = st.dup
    /\ ~st.stats => st.snaps = <<>>

(* C7: an EDPRSR read that returns a word with bit 0 clear aborts the      *)
(* process, and that read stays the only access ever made on the port.     *)
C7_PowerDown ==
    st.log # <<>> =>
        /\ st.log[1].op = "read" /\ st.log[1].addr = Addr(st, EDPRSR)
        /\ (st.log[1].ok /\ st.log[1].val % 2 = 0) =>
              st.pc = "abort" /\ Len(st.log) = 1

C7_Witness ==
    /\ st.pc = "abort" /\ st.line = 75
    /\ st.log = <<Access("read", Addr(st, EDPRSR), 2, TRUE)>>

(* C8: cancellation is seen only between whole rounds.  The loop is left   *)
(* only from its top; when it has been left every value returned has been  *)
(* counted and classified; a round under way when the signal arrives goes  *)
(* on; and once the loop is left no access is made on the port.            *)
C8_WholeRounds ==
    /\ [](st.pc \in {"exit", "done"} =>
            /\ st.result = <<>>
            /\ st.total = Len(st.got)
            /\ ~st.nodups => st.out = st.got)
    /\ [][/\ (st'.pc = "exit" /\ st.pc # "exit") => (st.pc = "while" /\ ~st.running)
          /\ (st.pc = "for" /\ st'.pc # "for" /\ st'.pc # "abort") => st'.pc = "while"
          /\ st.pc \in {"exit", "done", "abort"} => st'.log = st.log]_vars

C8_Witness ==
    /\ sig.at \in {"read_multi", "for"}
    /\ st.pc = "done"
    /\ Len(st.got) >= 2 /\ st.total = Len(st.got)

(* C9: after a cancellation signal the process reaches the clean exit and  *)
(* not an abort, unless the round in flight fails in the transport, with   *)
(* --stats and --nodups on or off and whatever time has elapsed; at most   *)
(* one further round is started after the signal.                          *)
C9_CleanExit ==
    sig.at # "none" =>
        /\ ~st.running
        /\ Rounds(st) <= sig.rounds + 1
        /\ st.pc = "abort" => st.panic = "read dcc"

(* C10: the emitted values, the accesses on the port and the place where   *)
(* the process is or ends are the same with --stats and without it.        *)
C10_StatsAdvisory ==
    /\ st.out = tw.out
    /\ st.log = tw.log
    /\ st.pc = tw.pc

(* C11: a malformed debug-base argument is a fatal parse error, and after  *)
(* the failed parse no register of the debug block is read or written.     *)
C11_MalformedBase ==
    /\ (st.debug_base \in BadBases /\ st.pc # "parse") =>
          /\ st.pc = "abort"
          /\ st.panic = "failed to parse debug base"
          /\ st.log = <<>>
    /\ st.panic = "failed to parse debug base" => st.log = <<>>

C11_Witness ==
    /\ st.debug_base = <<"0", "x", "Z", "Z">>
    /\ st.pc = "abort" /\ st.line = 64

(* The places in the port log of the read_multi calls. *)
BatchReads(s) == {i \in DOMAIN s.log : s.log[i].op = "read_multi"}

(* C12: a transport failure of the batched DCC read is fatal: the process  *)
(* aborts, the read is not tried again, no access follows it, and nothing  *)
(* of that round is counted or emitted.                                    *)
C12_TransportFailure ==
    \A i \in BatchReads(st) :
        ~st.log[i].ok =>
            /\ i = Len(st.log)
            /\ st.pc = "abort" /\ st.panic = "read dcc"
            /\ st.result = <<>>
            /\ st.total = Len(st.got)
            /\ Len(st.out) <= Len(st.got)
            /\ ~st.nodups => st.out = st.got

C12_Witness ==
    /\ st.pc = "abort" /\ st.panic = "read dcc"
    /\ Rounds(st) >= 2 /\ st.total >= 2 /\ st.dup >= 1

(* C13: the batch size asked for in a round is never larger than in the   *)
(* round before, hence than in any earlier round, and never larger than   *)
(* --queue-size.                                                           *)
C13_BatchMonotone ==
    LET asked == SelectSeq(st.log, LAMBDA e : e.op = "read_multi")
    IN \A i \in DOMAIN asked :
          /\ asked[i].val <= st.queue_size
          /\ i > 1 => asked[i].val <= asked[i - 1].val

C13_Witness ==
    /\ Rounds(st) >= 3 /\ st.queue_size >= 2
    /\ st.pc = "done"

(* The scenario has run: both batches returned and every value of them    *)
(* processed to the end of its iteration, --nodups on.                     *)
ScenarioRun ==
    /\ target.dcc = "script" /\ st.nodups
    /\ st.queue_size = Len(Scenario[1])
    /\ st.got = Scenario[1] \o Scenario[2] /\ st.result = <<>>
    /\ Completed(st) = st.got

(* C14, as claimed: the scenario with --nodups emits 1,2,3,3,4. *)
C14_Scenario == ScenarioRun => st.out = <<1, 2, 3, 3, 4>>

(* C14, amended: the scenario with --nodups emits 1,2,3,4; the run of 3s   *)
(* that spans the two batches is collapsed to its first element.           *)
C14_ScenarioCollapsed == ScenarioRun => st.out = <<1, 2, 3, 4>>

C14_Witness == ScenarioRun /\ st.pc = "done" /\ st.dup = 4

(* The kinds of access on the port. *)
IsRead(e, s, off) == e.op = "read" /\ e.addr = Addr(s, off)
IsWrite(e, s, off) == e.op = "write" /\ e.addr = Addr(s, off)
IsBatch(e, s) == e.op = "read_multi" /\ e.addr = Addr(s, DCC)

(* C15: in a run that reaches capture the accesses are, in order: the      *)
(* EDPRSR read, the OSLAR write of 0 (once), one DSCR read or more, one    *)
(* DSCR write that succeeded, and only then reads of the DCC register.     *)
C15_BringUpOrder ==
    (st.handler \/ \E i \in DOMAIN st.log : st.log[i].op = "read_multi") =>
        /\ Len(st.log) >= 4
        /\ IsRead(st.log[1], st, EDPRSR) /\ st.log[1].ok
        /\ IsWrite(st.log[2], st, OSLAR) /\ st.log[2].val = 0 /\ st.log[2].ok
        /\ \E k \in 4..Len(st.log) :
              /\ IsWrite(st.log[k], st, DSCR) /\ st.log[k].ok
              /\ \A i \in 3..(k - 1) : IsRead(st.log[i], st, DSCR)
              /\ \A i \in (k + 1)..Len(st.log) : IsBatch(st.log[i], st)

C15_Witness ==
    /\ st.pc = "done" /\ Rounds(st) >= 2
    /\ Len(st.log) >= 7 /\ ~st.log[3].ok /\ st.log[4].ok

(* Some DSCR read has succeeded. *)
DscrWasRead(s) == \E i \in DOMAIN s.log : IsRead(s.log[i], s, DSCR) /\ s.log[i].ok

(* The retry loop of lines 80-82: a failed DSCR read never aborts and is   *)
(* followed by another DSCR read with nothing in between; the loop is left *)
(* only by a DSCR read that succeeded, to the DSCR write; past the loop    *)
(* some DSCR read has succeeded; and where the read succeeds after         *)
(* finitely many failures, the loop is left.                               *)
DscrRetryLoop ==
    /\ [][st.pc = "dscr" =>
            /\ st'.pc \in {"dscr", "dscr_write"}
            /\ st'.log # st.log =>
                  /\ st'.log = Append(st.log, st'.log[Len(st'.log)])
                  /\ IsRead(st'.log[Len(st'.log)], st, DSCR)
                  /\ st'.log[Len(st'.log)].ok <=> st'.pc = "dscr_write"]_vars
    /\ [](\A i \in DOMAIN st.log :
            (IsRead(st.log[i], st, DSCR) /\ ~st.log[i].ok) =>
                IF i = Len(st.log) THEN st.pc = "dscr"
                ELSE IsRead(st.log[i + 1], st, DSCR))
    /\ [](st.pc \notin {"parse", "edprsr", "oslar", "dscr", "abort"} => DscrWasRead(st))
    /\ (st.pc = "dscr") ~> (st.pc = "dscr_write")

(* C16 as stated: the retry loop, and bring-up completes (stall mode       *)
(* written, capture loop entered) if and only if some DSCR read succeeds:  *)
(* once a read has succeeded the process goes on to the capture loop, and  *)
(* does not abort before it.                                               *)
C16_DscrRetryCompletes ==
    /\ DscrRetryLoop
    /\ [](st.handler => DscrWasRead(st))
    /\ []((DscrWasRead(st) /\ st.pc = "abort") => st.handler)
    /\ (st.pc = "dscr_write") ~> st.handler

(* C16 as the code has it: the retry loop; the successful read is followed *)
(* by the write of DSCR and then the installation of the handler, each of  *)
(* which is fatal when it fails; bring-up completes exactly when a DSCR    *)
(* read, that write and that installation have succeeded; and after a      *)
(* successful read the process reaches the capture loop or aborts.         *)
C16_DscrRetry ==
    /\ DscrRetryLoop
    /\ [][st.pc = "dscr_write" =>
            /\ st'.pc \in {"dscr_write", "set_handler", "abort"}
            /\ st'.log # st.log =>
                  /\ st'.log = Append(st.log, st'.log[Len(st'.log)])
                  /\ IsWrite(st'.log[Len(st'.log)], st, DSCR)
                  /\ st'.log[Len(st'.log)].ok <=> st'.pc = "set_handler"
                  /\ ~st'.log[Len(st'.log)].ok <=> st'.pc = "abort"]_vars
    /\ [][st.pc = "set_handler" =>
            /\ st'.pc \in {"set_handler", "while", "abort"}
            /\ st'.log = st.log
            /\ st'.handler <=> st'.pc = "while"]_vars
    /\ [](st.handler =>
            /\ DscrWasRead(st)
            /\ \E k \in DOMAIN st.log : IsWrite(st.log[k], st, DSCR) /\ st.log[k].ok)
    /\ []((DscrWasRead(st) /\ st.pc = "abort" /\ ~st.handler) =>
            /\ st.panic \in {"write dscr", "set handler"}
            /\ st.panic = "write dscr" => ~st.log[Len(st.log)].ok
            /\ \A i \in DOMAIN st.log : st.log[i].op # "read_multi")
    /\ (st.pc = "dscr_write") ~> (st.handler \/ st.pc = "abort")

C16_Witness ==
    /\ st.handler
    /\ ~st.log[3].ok /\ ~st.log[4].ok /\ st.log[5].ok
    /\ IsWrite(st.log[6], st, DSCR)

(* C17: the word written to DSCR is the word of the first DSCR read that   *)
(* succeeded, with bit 20 set and every other bit as read; it is written   *)
(* once; where bit 20 was set already the word written is the word read.   *)
C17_StallBitOnly ==
    LET W == {k \in DOMAIN st.log : IsWrite(st.log[k], st, DSCR)}
        B == 2 ^ StallBit
    IN /\ Cardinality(W) <= 1
       /\ st.pc \in {"set_handler", "while", "read_multi", "for", "exit", "done"} =>
             Cardinality(W) = 1
       /\ \A k \in W :
             LET w == st.log[k].val
                 v == st.log[k - 1].val
             IN /\ k >= 4
                /\ IsRead(st.log[k - 1], st, DSCR) /\ st.log[k - 1].ok
                /\ \A i \in 3..(k - 2) : IsRead(st.log[i], st, DSCR) /\ ~st.log[i].ok
                /\ w % B = v % B
                /\ (w \div B) % 2 = 1
                /\ w \div (2 * B) = v \div (2 * B)
                /\ (v \div B) % 2 = 1 => w = v

C17_Witness ==
    /\ st.pc = "while"
    /\ st.dscr = 2 ^ StallBit + 5
    /\ ~st.log[3].ok
    /\ st.log[5] = Access("write", Addr(st, DSCR), 2 ^ StallBit + 5, TRUE)

(* C18: the signal handler only sets running to false: a step that changes *)
(* the flag or records the signal changes nothing else and performs no     *)
(* access; the flag never becomes true again; every step performs at most  *)
(* one access, so no two accesses are in flight together.                  *)
C18_HandlerOnlyClearsFlag ==
    [][ /\ (st'.running # st.running \/ sig' # sig) =>
              st' = [st EXCEPT !.running = FALSE]
        /\ ~st.running => ~st'.running
        /\ Len(st'.log) <= Len(st.log) + 1
        /\ st'.log # st.log => st'.running = st.running ]_vars

C18_Witness ==
    /\ sig.at = "for" /\ ~st.running
    /\ st.pc = "done" /\ st.total >= 2 /\ st.result = <<>>

(* The values a run of equal values is collapsed from: v is kept where it  *)
(* differs from the value before it, prev being the value before the       *)
(* first (lines 96, 105, 107, 112).                                        *)
RECURSIVE Collapse(_, _, _, _)
Collapse(q, i, prev, acc) ==
    IF i > Len(q) THEN acc
    ELSE Collapse(q, i + 1, q[i], IF q[i] = prev THEN acc ELSE Append(acc, q[i]))

(* C19 as stated: with --nodups the stream is the sequence of the values   *)
(* read with every run of equal values collapsed to its first element,     *)
(* the first value read being emitted whatever it is (0 included).         *)
C19_RunsCollapsed ==
    st.nodups => st.out = Collapse(Completed(st), 1, -1, <<>>)

(* C19 as the code has it: the runs are collapsed in the sequence of the   *)
(* values read preceded by the initial last value 0, which is not emitted: *)
(* a leading run of 0 is suppressed whole.                                 *)
C19_RunsCollapsedAfterZero ==
    st.nodups => st.out = Collapse(Completed(st), 1, 0, <<>>)

C19_Witness ==
    /\ st.nodups /\ st.pc = "done"
    /\ Len(st.got) >= 4 /\ st.got[1] = 0 /\ st.got[2] = 0
    /\ Len(st.out) = 2

(* C20: dup never exceeds total; between outcomes the number of values     *)
(* emitted is total less dup with --nodups and total without (one less     *)
(* where the process died inside an outcome, the value counted and not     *)
(* printed); no step lowers total or dup.                                  *)
C20_Accounting ==
    /\ [](/\ st.dup <= st.total
          /\ Len(st.out) + (IF InFlight(st) THEN 1 ELSE 0) =
                IF st.nodups THEN st.total - st.dup ELSE st.total)
    /\ [][st'.total >= st.total /\ st'.dup >= st.dup]_vars

C20_Witness ==
    /\ st.nodups /\ st.pc = "for"
    /\ st.total = 3 /\ st.dup = 2 /\ Len(st.out) = 1

====
